---- MODULE Spec2Model ----
(***************************************************************************)
(* Connection supervisor of remoteplay-inviter (src/src/main.rs, main).    *)
(* The state is main's locals plus the observable effects the properties   *)
(* speak about (connection attempts, frames consumed, pongs written,       *)
(* calls of RetrySec::next / RetrySec::reset, lines written to stderr).    *)
(* One action per await point of main: each action runs the code from one  *)
(* await to the next.                                                      *)
(***************************************************************************)
EXTENDS Integers, Sequences, FiniteSets, TLC

\* ------------------------------------------------------------------ bounds
\* connection attempts explored per run of the process
MaxAttempts == 3
\* frames delivered by the server per session
MaxFrames == 2
\* largest wait the backoff calculator hands out
RetryCap == 4

\* ------------------------------------------------- collaborators (not in src/)
\* retry.rs: the wait RetrySec::new() and reset() start from
RetryFloor == 1

Min(a, b) == IF a < b THEN a ELSE b

\* retry.rs, RetrySec::new
RetryNew == RetryFloor

\* retry.rs, RetrySec::next: returns the current wait and escalates the state
RetryNext(s) == [sec |-> s, state |-> Min(2 * s, RetryCap)]

\* retry.rs, RetrySec::reset
RetryReset(s) == RetryFloor

\* connect_async errors handed to ws_error_handler.rs
WsErrors == {"Http401", "Http409", "Io", "Tls"}

\* ws_error_handler.rs, handle_ws_error: Ok for the well-known user-actionable
\* rejections (the loop must end), Err for every other rejection
HandleWsError(err) == IF err \in {"Http401", "Http409"} THEN "Ok" ELSE "Err"

\* payloads of text frames the server may send
Texts == {"not json", "{\"cmd\":\"invite\"}", "{\"cmd\":\"exit\"}"}

\* models.rs, ServerMessage, and serde_json::from_str on it
Decode(text) ==
    CASE text = "{\"cmd\":\"invite\"}" -> [ok |-> TRUE, msg |-> "Invite"]
      [] text = "{\"cmd\":\"exit\"}" -> [ok |-> TRUE, msg |-> "Exit"]
      [] OTHER -> [ok |-> FALSE, msg |-> "none"]

\* handlers.rs, Handler::handle_server_message: Ok(true), Ok(false) or Err
HandlerReturns == {"Terminate", "Continue", "Error"}

\* ------------------------------------------------------------- inputs
\* payloads of ping frames the server may send
PingPayloads == {<<>>, <<1, 2, 3>>}

\* frame kinds that main's match sends to the `_ => ()` arm
OtherKinds == {"Binary", "Pong", "Frame"}

\* what the URL closure of main can end with
SetupErrors == {"EndpointConfigError", "ConfigError", "UrlParseError", "UrlBuildError"}

NoMessage == [kind |-> "NoMessage", payload |-> <<>>, text |-> ""]
Frame(k, p, t) == [kind |-> k, payload |-> p, text |-> t]

\* the anyhow contexts main attaches to the failures of one iteration
ErrConnectTimeout == "Connection timed out to the server"
ErrConnectRejected == "Connection rejected"
ErrIdleTimeout == "Connection timed out"
ErrReceive == "Failed to receive message from the server"
ErrPongSend == "Failed to send pong message to the server"
ErrDecode == "Failed to deserialize JSON message from the server"
ErrHandler == "Handler failed"

RetryableErrors ==
    {ErrConnectTimeout, ErrConnectRejected, ErrIdleTimeout, ErrReceive,
     ErrPongSend, ErrDecode, ErrHandler}

VARIABLES
    pc,           \* where main is: Idle, Connecting, Connected, SendingPong,
                  \* Handling, Sleeping, Terminated, Exited
    setup,        \* outcome of the set-up part of main: Pending, Ok, or the failure
    url,          \* the target address ("unset" until built)
    reconnect,    \* main's `reconnect`
    retry_sec,    \* main's `retry_sec` (state of the backoff calculator)
    result,       \* main's `result` of the last iteration: None, Success, Break or the error
    connect_result, \* what the last connect_async under its timeout gave:
                  \* None, Elapsed, Ok or the error
    session,      \* number of the open session (0: none open)
    message,      \* what the last read.next() under its timeout gave
    frames,       \* frames consumed from the current session
    pings,        \* payloads of the Ping frames consumed from the current session
    sent,         \* payloads of the Pongs written to the current session's send half
    attempts,     \* calls of connect_async so far
    nextCalls,    \* calls of retry_sec.next() so far
    resetCalls,   \* calls of retry_sec.reset() so far
    handlerCalls, \* calls of handle_server_message so far
    handlerArg,   \* the message of the last call of handle_server_message
    handlerRet,   \* what the last call of handle_server_message returned
    logged,       \* error lines written with console::eprintln! so far
    sleepFor,     \* seconds of the last time::sleep of the loop
    announce,     \* last connection wording printed
    streak,       \* the waits slept since the last reset() (or since the start)
    ctrl_c        \* whether the interrupt awaited at the end of main has arrived

vars == <<pc, setup, url, reconnect, retry_sec, result, connect_result, session, message, frames,
          pings, sent, attempts, nextCalls, resetCalls, handlerCalls, handlerArg,
          handlerRet, logged, sleepFor, announce, streak, ctrl_c>>

\* main.rs 96-99 and the state before main has run
Init ==
    /\ pc = "Idle"
    /\ setup = "Pending"
    /\ url = "unset"
    /\ reconnect = FALSE
    /\ retry_sec = RetryNew
    /\ result = "None"
    /\ connect_result = "None"
    /\ session = 0
    /\ message = NoMessage
    /\ frames = 0
    /\ pings = <<>>
    /\ sent = <<>>
    /\ attempts = 0
    /\ nextCalls = 0
    /\ resetCalls = 0
    /\ handlerCalls = 0
    /\ handlerArg = "none"
    /\ handlerRet = "none"
    /\ logged = 0
    /\ sleepFor = 0
    /\ announce = "none"
    /\ streak = <<>>
    /\ ctrl_c = FALSE

\* the Break of an iteration is not looked at and the loop goes on
LoopEnds_never(res) == FALSE

\* ------------------------------------------------------ end of an iteration
\* main.rs 223: the iteration's result ends the whole loop
LoopEnds(res) == res = "Break"

\* the error of an iteration is dropped without a line on stderr
IsErr_never(res) == FALSE

\* main.rs 226: the iteration's result is an error to report
IsErr(res) == res \notin {"Success", "Break"}

\* next() is called once for the printed line and once more for the sleep
EndIteration_nextTwice(res) ==
    /\ result' = res
    /\ session' = 0
    /\ IF LoopEnds(res)
       THEN /\ pc' = "Terminated"
            /\ UNCHANGED <<retry_sec, nextCalls, logged, sleepFor, streak>>
       ELSE /\ logged' = IF IsErr(res) THEN logged + 1 ELSE logged
            /\ sleepFor' = RetryNext(RetryNext(retry_sec).state).sec
            /\ streak' = Append(streak, RetryNext(RetryNext(retry_sec).state).sec)
            /\ retry_sec' = RetryNext(RetryNext(retry_sec).state).state
            /\ nextCalls' = nextCalls + 2
            /\ pc' = "Sleeping"

\* the stream lives outside the loop and is kept for the next iteration
EndIteration_keepsSession(res) ==
    /\ result' = res
    /\ session' = session
    /\ IF LoopEnds(res)
       THEN /\ pc' = "Terminated"
            /\ UNCHANGED <<retry_sec, nextCalls, logged, sleepFor, streak>>
       ELSE /\ logged' = IF IsErr(res) THEN logged + 1 ELSE logged
            /\ sleepFor' = RetryNext(retry_sec).sec
            /\ streak' = Append(streak, RetryNext(retry_sec).sec)
            /\ retry_sec' = RetryNext(retry_sec).state
            /\ nextCalls' = nextCalls + 1
            /\ pc' = "Sleeping"

\* main.rs 219-233: the closure has returned res and the session is dropped;
\* the loop is left, or the error is reported, next() is asked for the wait
\* and the sleep starts
EndIteration(res) ==
    /\ result' = res
    /\ session' = 0
    /\ IF LoopEnds(res)
       THEN /\ pc' = "Terminated"
            /\ UNCHANGED <<retry_sec, nextCalls, logged, sleepFor, streak>>
       ELSE /\ logged' = IF IsErr(res) THEN logged + 1 ELSE logged
            /\ sleepFor' = RetryNext(retry_sec).sec
            /\ streak' = Append(streak, RetryNext(retry_sec).sec)
            /\ retry_sec' = RetryNext(retry_sec).state
            /\ nextCalls' = nextCalls + 1
            /\ pc' = "Sleeping"

\* main.rs 153-160: the top of an iteration up to the call of connect_async
BeginAttempt(rc) ==
    /\ announce' = IF rc THEN "Reconnecting" ELSE announce
    /\ attempts' = attempts + 1
    /\ pc' = "Connecting"

\* --------------------------------------------------------------- set-up
\* main.rs 56-75: --version / --help print and return
CliFlag ==
    /\ pc = "Idle"
    /\ pc' = "Exited"
    /\ UNCHANGED <<setup, url, reconnect, retry_sec, result, session, message,
                   frames, pings, sent, attempts, nextCalls, resetCalls,
                   handlerCalls, handlerArg, handlerRet, logged, sleepFor,
                   announce, ctrl_c>>
    /\ UNCHANGED connect_result
    /\ UNCHANGED streak

\* main.rs 78-141: Steam, the configuration files and the URL are all there;
\* the loop is entered and the first connection attempt starts
Setup ==
    /\ pc = "Idle"
    /\ setup' = "Ok"
    /\ url' = "ws-url"
    /\ BeginAttempt(reconnect)
    /\ UNCHANGED <<reconnect, retry_sec, result, session, message, frames, pings,
                   sent, nextCalls, resetCalls, handlerCalls, handlerArg,
                   handlerRet, logged, sleepFor, ctrl_c>>
    /\ UNCHANGED connect_result
    /\ UNCHANGED streak

\* the set-up failure is handled like a failed iteration and retried
SetupFailed_retried(err) ==
    /\ setup' = err
    /\ logged' = logged + 1
    /\ pc' = "Sleeping"

\* main.rs 82-85, 135-140: the failure is printed and main breaks out of 'main
SetupFailed(err) ==
    /\ setup' = err
    /\ logged' = logged + 1
    /\ pc' = "Terminated"

\* main.rs 78-86, 102-141: Steam is not running, or the URL closure failed
SetupFails ==
    /\ pc = "Idle"
    /\ \E err \in {"SteamError"} \cup SetupErrors : SetupFailed(err)
    /\ UNCHANGED <<url, reconnect, retry_sec, result, session, message, frames,
                   pings, sent, attempts, nextCalls, resetCalls, handlerCalls,
                   handlerArg, handlerRet, sleepFor, announce, ctrl_c>>
    /\ UNCHANGED connect_result
    /\ UNCHANGED streak

\* ----------------------------------------------------------- connecting
\* what an iteration that ends leaves alone
endFrame == <<setup, url, reconnect, attempts, resetCalls, handlerCalls,
              handlerArg, announce, ctrl_c>>

\* main.rs 160-162: connect_async did not answer within 10 seconds
ConnectTimeout ==
    /\ pc = "Connecting"
    /\ connect_result' = "Elapsed"
    /\ EndIteration(ErrConnectTimeout)
    /\ UNCHANGED endFrame
    /\ UNCHANGED <<message, frames, pings, sent, handlerRet>>

\* main.rs 165-169: what the closure returns for a rejected connection
Rejection(err) == IF HandleWsError(err) = "Ok" THEN "Break" ELSE ErrConnectRejected

\* main.rs 163-170: connect_async answered with an error
ConnectRejected ==
    /\ pc = "Connecting"
    /\ \E err \in WsErrors :
          /\ connect_result' = err
          /\ EndIteration(Rejection(err))
    /\ UNCHANGED endFrame
    /\ UNCHANGED <<message, frames, pings, sent, handlerRet>>

\* a completed handshake resets the backoff
HandshakeRetry_reset(s) == RetryFloor

\* main.rs 98-99, 163-180: what a completed handshake does to retry_sec
HandshakeRetry(s) == s

\* main.rs 163-180: the handshake succeeded, the stream is split
ConnectOk ==
    /\ pc = "Connecting"
    /\ connect_result' = "Ok"
    /\ session' = attempts
    /\ message' = NoMessage
    /\ frames' = 0
    /\ pings' = <<>>
    /\ sent' = <<>>
    /\ announce' = IF reconnect THEN "Reconnected" ELSE "Connected"
    /\ retry_sec' = HandshakeRetry(retry_sec)
    /\ pc' = "Connected"
    /\ UNCHANGED <<setup, url, reconnect, result, attempts, nextCalls,
                   resetCalls, handlerCalls, handlerArg, handlerRet, logged,
                   sleepFor, ctrl_c>>
    /\ UNCHANGED streak

\* the idle timeout is taken for a request to leave the loop
IdleResult_break == "Break"

\* ------------------------------------------------------------ in session
\* main.rs 183-185: what the closure returns when the read timed out
IdleResult == ErrIdleTimeout

\* main.rs 183-185: no item within 60 seconds
IdleTimeout ==
    /\ pc = "Connected"
    /\ message' = Frame("Elapsed", <<>>, "")
    /\ EndIteration(IdleResult)
    /\ UNCHANGED endFrame
    /\ UNCHANGED <<frames, pings, sent, handlerRet>>
    /\ UNCHANGED connect_result

\* the end of the stream is reported as a receive error
StreamEndResult_error == ErrReceive

\* main.rs 183, 219: what the closure returns when the stream has ended
StreamEndResult == "Success"

\* main.rs 183, 219: read.next() yields None, the while loop is left
StreamEnd ==
    /\ pc = "Connected"
    /\ message' = Frame("EndOfStream", <<>>, "")
    /\ EndIteration(StreamEndResult)
    /\ UNCHANGED endFrame
    /\ UNCHANGED <<frames, pings, sent, handlerRet>>
    /\ UNCHANGED connect_result

\* main.rs 188: read.next() yields an error
RecvError ==
    /\ pc = "Connected"
    /\ message' = Frame("Error", <<>>, "")
    /\ EndIteration(ErrReceive)
    /\ UNCHANGED endFrame
    /\ UNCHANGED <<frames, pings, sent, handlerRet>>
    /\ UNCHANGED connect_result

\* a Close frame leaves the whole loop
CloseResult_break == "Break"

\* main.rs 189, 219: what the closure returns after a Close frame
CloseResult == "Success"

\* main.rs 189: Message::Close
RecvClose ==
    /\ pc = "Connected"
    /\ frames < MaxFrames
    /\ message' = Frame("Close", <<>>, "")
    /\ frames' = frames + 1
    /\ EndIteration(CloseResult)
    /\ UNCHANGED endFrame
    /\ UNCHANGED <<pings, sent, handlerRet>>
    /\ UNCHANGED connect_result

\* the Pong is sent by a spawned task and the loop goes on reading at once
RecvPing_spawned ==
    /\ pc = "Connected"
    /\ frames < MaxFrames
    /\ \E p \in PingPayloads :
          /\ message' = Frame("Ping", p, "")
          /\ pings' = Append(pings, p)
    /\ frames' = frames + 1
    /\ pc' = "Connected"
    /\ UNCHANGED <<setup, url, reconnect, retry_sec, result, session, sent,
                   attempts, nextCalls, resetCalls, handlerCalls, handlerArg,
                   handlerRet, logged, sleepFor, announce, ctrl_c>>
    /\ UNCHANGED connect_result
    /\ UNCHANGED streak

\* main.rs 190-195: Message::Ping, up to the await of write.send
RecvPing ==
    /\ pc = "Connected"
    /\ frames < MaxFrames
    /\ \E p \in PingPayloads :
          /\ message' = Frame("Ping", p, "")
          /\ pings' = Append(pings, p)
    /\ frames' = frames + 1
    /\ pc' = "SendingPong"
    /\ UNCHANGED <<setup, url, reconnect, retry_sec, result, session, sent,
                   attempts, nextCalls, resetCalls, handlerCalls, handlerArg,
                   handlerRet, logged, sleepFor, announce, ctrl_c>>
    /\ UNCHANGED connect_result
    /\ UNCHANGED streak

\* the Pong is written without the Ping's payload
PongPayload_empty(ping) == <<>>

\* main.rs 193: the payload of the Pong written for a Ping
PongPayload(ping) == ping

\* main.rs 192-199: the send succeeded, retry_sec is reset
PongSent ==
    /\ pc = "SendingPong"
    /\ sent' = Append(sent, PongPayload(message.payload))
    /\ retry_sec' = RetryReset(retry_sec)
    /\ resetCalls' = resetCalls + 1
    /\ streak' = <<>>
    /\ pc' = "Connected"
    /\ UNCHANGED <<setup, url, reconnect, result, session, message, frames,
                   pings, attempts, nextCalls, handlerCalls, handlerArg,
                   handlerRet, logged, sleepFor, announce, ctrl_c>>
    /\ UNCHANGED connect_result

\* the failed send is ignored: the reset follows and the session goes on
PongSendFails_ignored ==
    /\ pc = "SendingPong"
    /\ retry_sec' = RetryReset(retry_sec)
    /\ resetCalls' = resetCalls + 1
    /\ streak' = <<>>
    /\ pc' = "Connected"
    /\ UNCHANGED <<setup, url, reconnect, result, session, message, frames,
                   pings, sent, attempts, nextCalls, handlerCalls, handlerArg,
                   handlerRet, logged, sleepFor, announce, ctrl_c>>
    /\ UNCHANGED connect_result

\* main.rs 192-195: the send failed
PongSendFails ==
    /\ pc = "SendingPong"
    /\ EndIteration(ErrPongSend)
    /\ UNCHANGED endFrame
    /\ UNCHANGED <<message, frames, pings, sent, handlerRet>>
    /\ UNCHANGED connect_result

\* the decode failure is swallowed and the frame is dispatched all the same
Dispatchable_always(text) == TRUE

\* main.rs 202-204: whether the text is handed to the Handler
Dispatchable(text) == Decode(text).ok

\* main.rs 200-207: Message::Text, up to the await of handle_server_message
RecvText ==
    /\ pc = "Connected"
    /\ frames < MaxFrames
    /\ frames' = frames + 1
    /\ \E t \in Texts :
          /\ message' = Frame("Text", <<>>, t)
          /\ IF Dispatchable(t)
             THEN /\ handlerCalls' = handlerCalls + 1
                  /\ handlerArg' = Decode(t).msg
                  /\ handlerRet' = "Pending"
                  /\ pc' = "Handling"
                  /\ UNCHANGED streak
                  /\ UNCHANGED <<setup, url, reconnect, retry_sec, result,
                                 session, attempts, nextCalls, resetCalls,
                                 logged, sleepFor, announce, ctrl_c>>
             ELSE /\ EndIteration(ErrDecode)
                  /\ UNCHANGED endFrame
                  /\ UNCHANGED handlerRet
    /\ UNCHANGED <<pings, sent>>
    /\ UNCHANGED connect_result

\* the exit flag of the Handler is not looked at
ExitFlag_ignored(ret) == FALSE

\* main.rs 207-210: whether the Handler's return ends the loop
ExitFlag(ret) == ret = "Terminate"

\* the reset after a dispatched message is left out
ContinueSession_noReset ==
    /\ UNCHANGED <<retry_sec, resetCalls, streak>>
    /\ pc' = "Connected"

\* main.rs 212-213: the Handler lets the session go on and retry_sec is reset
ContinueSession ==
    /\ retry_sec' = RetryReset(retry_sec)
    /\ resetCalls' = resetCalls + 1
    /\ streak' = <<>>
    /\ pc' = "Connected"

\* the Handler's error is swallowed and taken for "continue"
HandlerFailed_swallowed(ret) == FALSE

\* main.rs 207: the `?` on the Handler's return
HandlerFailed(ret) == ret = "Error"

\* main.rs 207-214: handle_server_message returned
HandlerReturn ==
    /\ pc = "Handling"
    /\ \E ret \in HandlerReturns :
          /\ handlerRet' = ret
          /\ IF HandlerFailed(ret)
             THEN /\ EndIteration(ErrHandler)
                  /\ UNCHANGED endFrame
             ELSE IF ExitFlag(ret)
             THEN /\ EndIteration("Break")
                  /\ UNCHANGED endFrame
             ELSE /\ ContinueSession
                  /\ UNCHANGED <<setup, url, reconnect, result, session,
                                 attempts, nextCalls, handlerCalls, handlerArg,
                                 logged, sleepFor, announce, ctrl_c>>
    /\ UNCHANGED <<message, frames, pings, sent>>
    /\ UNCHANGED connect_result

\* every frame counts as a sign of life and resets the backoff
RecvOther_resets ==
    /\ pc = "Connected"
    /\ frames < MaxFrames
    /\ \E k \in OtherKinds : message' = Frame(k, <<>>, "")
    /\ frames' = frames + 1
    /\ retry_sec' = RetryReset(retry_sec)
    /\ resetCalls' = resetCalls + 1
    /\ streak' = <<>>
    /\ UNCHANGED <<pc, setup, url, reconnect, result, session, pings,
                   sent, attempts, nextCalls, handlerCalls,
                   handlerArg, handlerRet, logged, sleepFor, announce, ctrl_c>>
    /\ UNCHANGED connect_result

\* main.rs 215: any other frame
RecvOther ==
    /\ pc = "Connected"
    /\ frames < MaxFrames
    /\ \E k \in OtherKinds : message' = Frame(k, <<>>, "")
    /\ frames' = frames + 1
    /\ UNCHANGED <<pc, setup, url, reconnect, retry_sec, result, session, pings,
                   sent, attempts, nextCalls, resetCalls, handlerCalls,
                   handlerArg, handlerRet, logged, sleepFor, announce, ctrl_c>>
    /\ UNCHANGED connect_result
    /\ UNCHANGED streak

\* the flag is not set after the sleep
Wake_flagNotSet ==
    /\ pc = "Sleeping"
    /\ attempts < MaxAttempts
    /\ reconnect' = reconnect
    /\ BeginAttempt(reconnect')
    /\ UNCHANGED <<setup, url, retry_sec, result, session, message, frames,
                   pings, sent, nextCalls, resetCalls, handlerCalls, handlerArg,
                   handlerRet, logged, sleepFor, ctrl_c>>
    /\ UNCHANGED connect_result
    /\ UNCHANGED streak

\* ------------------------------------------------- sleeping and the end
\* main.rs 233-234, 148-160: the sleep is over, the flag is set and the next
\* iteration starts its connection attempt
Wake ==
    /\ pc = "Sleeping"
    /\ attempts < MaxAttempts
    /\ reconnect' = TRUE
    /\ BeginAttempt(reconnect')
    /\ UNCHANGED <<setup, url, retry_sec, result, session, message, frames,
                   pings, sent, nextCalls, resetCalls, handlerCalls, handlerArg,
                   handlerRet, logged, sleepFor, ctrl_c>>
    /\ UNCHANGED connect_result
    /\ UNCHANGED streak

\* the operator presses Ctrl+C while main waits at main.rs 240
Interrupt ==
    /\ pc = "Terminated"
    /\ ~ctrl_c
    /\ ctrl_c' = TRUE
    /\ UNCHANGED <<pc, setup, url, reconnect, retry_sec, result, session,
                   message, frames, pings, sent, attempts, nextCalls,
                   resetCalls, handlerCalls, handlerArg, handlerRet, logged,
                   sleepFor, announce>>
    /\ UNCHANGED connect_result
    /\ UNCHANGED streak

\* main returns without waiting for the interrupt
MayExit_always == TRUE

\* main.rs 240: what lets the await of ctrl_c() return
MayExit == ctrl_c

\* main.rs 239-242: main returns Ok(())
Exit ==
    /\ pc = "Terminated"
    /\ MayExit
    /\ pc' = "Exited"
    /\ UNCHANGED <<setup, url, reconnect, retry_sec, result, session, message,
                   frames, pings, sent, attempts, nextCalls, resetCalls,
                   handlerCalls, handlerArg, handlerRet, logged, sleepFor,
                   announce, ctrl_c>>
    /\ UNCHANGED connect_result
    /\ UNCHANGED streak

Next ==
    \/ CliFlag
    \/ Setup
    \/ SetupFails
    \/ ConnectTimeout
    \/ ConnectRejected
    \/ ConnectOk
    \/ IdleTimeout
    \/ StreamEnd
    \/ RecvError
    \/ RecvClose
    \/ RecvPing
    \/ PongSent
    \/ PongSendFails
    \/ RecvText
    \/ HandlerReturn
    \/ RecvOther
    \/ Wake
    \/ Interrupt
    \/ Exit

Spec == Init /\ [][Next]_vars

\* main.rs 233: time::sleep returns once its duration has passed
LiveSpec == Spec /\ WF_vars(Wake)

\* -------------------------------------------------------------- properties
\* the step takes a frame of kind k from the receive half
ConsumesFrame(k) ==
    /\ pc = "Connected"
    /\ frames' = frames + 1
    /\ message'.kind = k

\* the part of the state a connection attempt, a consumed frame or a call of
\* the backoff calculator would change
loopEffects == <<attempts, connect_result, session, message, frames, pings, sent,
                 retry_sec, nextCalls, resetCalls, handlerCalls, sleepFor>>

\* C1: when handle_server_message returns true the loop is left at once, and
\* from then on no connection attempt is made, no frame is consumed and
\* neither next() nor reset() is called, whatever retry_sec was.
C1_TerminateEndsLoop ==
    /\ [][(pc = "Handling" /\ handlerRet' = "Terminate")
            => (pc' = "Terminated" /\ result' = "Break" /\ session' = 0
                /\ UNCHANGED <<attempts, connect_result, message, frames, pings,
                               sent, retry_sec, nextCalls, resetCalls,
                               handlerCalls, sleepFor>>)]_vars
    /\ [][(handlerRet = "Terminate")
            => (pc' \in {"Terminated", "Exited"} /\ UNCHANGED loopEffects)]_vars

C1_Witness ==
    /\ pc = "Terminated"
    /\ handlerRet = "Terminate"
    /\ retry_sec > RetryFloor
    /\ attempts < MaxAttempts

C3_EveryPingAnswered ==
    [][(pc = "SendingPong")
         => (/\ sent' = Append(sent, message.payload)
             /\ resetCalls' = resetCalls + 1
             /\ retry_sec' = RetryFloor
             /\ session' = session
             /\ pc' = "Connected")]_vars

\* C3 as amended: for every Ping one Pong with the Ping's payload is sent on
\* the same session before the next frame is consumed; when the send succeeds
\* reset() is called exactly once and the backoff is at its floor; when the
\* send fails no Pong is written, reset() is not called and the session ends
\* with the send error.
C3_PingAnsweredWhenSendSucceeds ==
    /\ [](pc = "SendingPong"
            => (/\ message.kind = "Ping"
                /\ session # 0
                /\ pings = Append(sent, message.payload)))
    /\ [](pc \in {"Connected", "Handling"} => sent = pings)
    /\ [][(pc = "SendingPong")
            => (\/ /\ sent' = Append(sent, message.payload)
                   /\ resetCalls' = resetCalls + 1
                   /\ retry_sec' = RetryFloor
                   /\ session' = session
                   /\ frames' = frames
                   /\ pc' = "Connected"
                \/ /\ sent' = sent
                   /\ resetCalls' = resetCalls
                   /\ result' = ErrPongSend
                   /\ session' = 0
                   /\ pc' = "Sleeping")]_vars

C3_Witness ==
    /\ pc = "Connected"
    /\ message = Frame("Ping", <<1, 2, 3>>, "")
    /\ sent = <<<<1, 2, 3>>>>
    /\ nextCalls > 0
    /\ retry_sec = RetryFloor

\* C4: a text frame that does not decode never reaches the Handler and never
\* resets the backoff; the session ends with the decode error, which is
\* logged, main sleeps the wait next() returned, and the only step out of the
\* sleep is a new connection attempt with reconnect = true.
C4_InvalidTextRetries ==
    /\ [][(ConsumesFrame("Text") /\ ~Decode(message'.text).ok)
            => (/\ handlerCalls' = handlerCalls
                /\ handlerRet' = handlerRet
                /\ resetCalls' = resetCalls
                /\ result' = ErrDecode
                /\ session' = 0
                /\ logged' = logged + 1
                /\ nextCalls' = nextCalls + 1
                /\ sleepFor' = RetryNext(retry_sec).sec
                /\ pc' = "Sleeping")]_vars
    /\ [][(pc = "Sleeping")
            => (pc' = "Connecting" /\ reconnect' /\ attempts' = attempts + 1
                /\ announce' = "Reconnecting")]_vars

C4_Witness ==
    /\ pc = "Connecting"
    /\ message = Frame("Text", <<>>, "not json")
    /\ result = ErrDecode
    /\ reconnect
    /\ attempts = 2
    /\ handlerCalls = 0

\* C5: a text frame that decodes is handed to the Handler exactly once, with
\* the decoded message; reset() is called exactly once when the Handler
\* returns "continue" and not at all when it returns anything else.
C5_ValidTextDispatchedOnce ==
    /\ [][(ConsumesFrame("Text") /\ Decode(message'.text).ok)
            => (/\ handlerCalls' = handlerCalls + 1
                /\ handlerArg' = Decode(message'.text).msg
                /\ resetCalls' = resetCalls
                /\ session' = session
                /\ pc' = "Handling")]_vars
    /\ [](pc = "Handling"
            => (message.kind = "Text" /\ handlerArg = Decode(message.text).msg))
    /\ [][(pc = "Handling")
            => (/\ handlerCalls' = handlerCalls
                /\ frames' = frames
                /\ IF handlerRet' = "Continue"
                   THEN /\ resetCalls' = resetCalls + 1
                        /\ retry_sec' = RetryFloor
                        /\ session' = session
                        /\ pc' = "Connected"
                   ELSE /\ resetCalls' = resetCalls
                        /\ session' = 0)]_vars

C5_Witness ==
    /\ pc = "Connected"
    /\ message = Frame("Text", <<>>, "{\"cmd\":\"invite\"}")
    /\ handlerArg = "Invite"
    /\ handlerRet = "Continue"
    /\ handlerCalls = 1
    /\ resetCalls = 1
    /\ nextCalls > 0
    /\ retry_sec = RetryFloor

\* C6: when no item arrives within the idle timeout the session ends with the
\* timeout error, which is logged; main sleeps the wait next() returned and
\* then makes a new connection attempt; it never ends up Terminated with that
\* result.
C6_IdleTimeoutRetries ==
    /\ [][(pc = "Connected" /\ message'.kind = "Elapsed")
            => (/\ result' = ErrIdleTimeout
                /\ session' = 0
                /\ logged' = logged + 1
                /\ nextCalls' = nextCalls + 1
                /\ sleepFor' = RetryNext(retry_sec).sec
                /\ resetCalls' = resetCalls
                /\ pc' = "Sleeping")]_vars
    /\ [][(pc = "Sleeping" /\ result = ErrIdleTimeout)
            => (pc' = "Connecting" /\ attempts' = attempts + 1)]_vars
    /\ [](result = ErrIdleTimeout => pc \notin {"Terminated", "Exited"})

C6_Witness ==
    /\ pc = "Connecting"
    /\ message.kind = "Elapsed"
    /\ result = ErrIdleTimeout
    /\ attempts = 2
    /\ logged = 1

\* the step is one of the retryable errors of an iteration: connect timeout,
\* ordinary connect rejection, idle timeout, receive error, failed pong send,
\* decode error
RetryableEvent ==
    \/ pc = "Connecting" /\ connect_result' = "Elapsed"
    \/ /\ pc = "Connecting"
       /\ connect_result' \in WsErrors
       /\ HandleWsError(connect_result') = "Err"
    \/ pc = "Connected" /\ message'.kind = "Elapsed"
    \/ pc = "Connected" /\ message'.kind = "Error"
    \/ pc = "SendingPong" /\ sent' = sent /\ pc' # pc
    \/ ConsumesFrame("Text") /\ ~Decode(message'.text).ok

\* C7: every retryable error is logged exactly once in the step that ends the
\* iteration, before the sleep; nothing is logged while sleeping; none of
\* them leaves main Terminated; and after each of them a further connection
\* attempt is eventually made (as long as the explored number of attempts
\* allows one).
C7_RetryableErrorsLoggedAndRetried ==
    /\ [][RetryableEvent
            => (/\ logged' = logged + 1
                /\ result' \in RetryableErrors
                /\ nextCalls' = nextCalls + 1
                /\ attempts' = attempts
                /\ pc' = "Sleeping")]_vars
    /\ [][(pc = "Sleeping")
            => (logged' = logged /\ pc' = "Connecting"
                /\ attempts' = attempts + 1)]_vars
    /\ [](result \in RetryableErrors => pc \notin {"Terminated", "Exited"})
    /\ ((pc = "Sleeping" /\ result \in RetryableErrors /\ attempts < MaxAttempts)
          ~> (pc = "Connecting"))

C7_Witness ==
    /\ pc = "Connecting"
    /\ result = ErrReceive
    /\ attempts = 3
    /\ logged = 2
    /\ nextCalls = 2

\* C8: once main is Terminated it makes no connection attempt, consumes no
\* frame and calls neither next() nor reset(); it leaves Terminated only by
\* exiting, and exits only after the interrupt has arrived; after the exit
\* nothing happens.
C8_TerminatedAbsorbing ==
    /\ [][(pc = "Terminated")
            => (/\ pc' \in {"Terminated", "Exited"}
                /\ (pc' = "Exited" => ctrl_c)
                /\ UNCHANGED loopEffects)]_vars
    /\ [][(pc = "Exited") => FALSE]_vars
    /\ [](pc = "Exited" => (ctrl_c \/ setup = "Pending"))

C8_Witness ==
    /\ pc = "Exited"
    /\ ctrl_c
    /\ result = "Break"
    /\ attempts = 2

\* C9: after a set-up failure main is Terminated (or has exited from there),
\* the failure has been reported once, no connection attempt was made and
\* next() was never called.
C9_SetupFailureTerminates ==
    setup \in SetupErrors
      => (/\ pc \in {"Terminated", "Exited"}
          /\ logged = 1
          /\ attempts = 0
          /\ nextCalls = 0
          /\ connect_result = "None"
          /\ sleepFor = 0)

C9_Witness ==
    /\ setup = "UrlParseError"
    /\ pc = "Exited"
    /\ logged = 1

\* C10: the backoff state goes back only in a call of reset(), and reset() is
\* called only in the step in which a Pong was written for a Ping or the
\* Handler returned "continue"; a handshake leaves the backoff state alone and
\* a timeout only escalates it.
C10_ResetOnlyOnLiveness ==
    /\ [][(resetCalls' # resetCalls \/ retry_sec' < retry_sec)
            => (/\ resetCalls' = resetCalls + 1
                /\ retry_sec' = RetryFloor
                /\ \/ /\ pc = "SendingPong"
                      /\ sent' = Append(sent, message.payload)
                   \/ /\ pc = "Handling"
                      /\ handlerRet' = "Continue")]_vars
    /\ [][(pc = "Connecting" /\ connect_result' = "Ok")
            => (retry_sec' = retry_sec /\ resetCalls' = resetCalls)]_vars
    /\ [][(connect_result' = "Elapsed" \/ message'.kind = "Elapsed")
            => (retry_sec' >= retry_sec /\ resetCalls' = resetCalls)]_vars

C10_Witness ==
    /\ pc = "Sleeping"
    /\ connect_result = "Ok"
    /\ message.kind = "Elapsed"
    /\ frames = 0
    /\ resetCalls = 0
    /\ nextCalls = 2
    /\ retry_sec > 2 * RetryFloor

\* main is inside an iteration of the loop
InIteration == pc \in {"Connecting", "Connected", "SendingPong", "Handling"}

\* C11: an iteration that ends without leaving the loop calls next() exactly
\* once and starts sleeping the returned wait, with the reconnect flag and the
\* number of attempts as they were; a further connection attempt starts only
\* from the finished sleep, in the step that sets the reconnect flag; so
\* next() has been called once per failed iteration.
C11_BackoffThenReconnect ==
    /\ [][(InIteration /\ pc' \notin {"Connected", "SendingPong", "Handling",
                                       "Terminated"})
            => (/\ pc' = "Sleeping"
                /\ nextCalls' = nextCalls + 1
                /\ sleepFor' = RetryNext(retry_sec).sec
                /\ reconnect' = reconnect
                /\ attempts' = attempts)]_vars
    /\ [][(attempts' # attempts /\ attempts > 0)
            => (/\ pc = "Sleeping"
                /\ pc' = "Connecting"
                /\ reconnect'
                /\ attempts' = attempts + 1
                /\ UNCHANGED <<nextCalls, sleepFor, retry_sec>>)]_vars
    /\ [](InIteration => nextCalls = attempts - 1)
    /\ [](pc = "Sleeping" => nextCalls = attempts)

C11_Witness ==
    /\ pc = "Connecting"
    /\ attempts = 3
    /\ nextCalls = 2
    /\ sleepFor = 2 * RetryFloor
    /\ reconnect
    /\ result = ErrConnectTimeout

C13_ReconnectOnlyAfterConnected ==
    [][(~reconnect /\ reconnect')
         => (connect_result = "Ok" \/ connect_result' = "Ok")]_vars

\* C13 as amended: the reconnect flag is false on the first connection
\* attempt and true on every later one, whether or not an earlier attempt
\* connected; once true it stays true; it selects the wording of the attempt
\* ("Reconnecting", then "Reconnected" instead of "Connected") and a
\* reconnect wording is printed only with the flag set.
C13_ReconnectAfterFirstIteration ==
    /\ [](InIteration => (reconnect <=> attempts >= 2))
    /\ [](attempts <= 1 => ~reconnect)
    /\ [][reconnect => reconnect']_vars
    /\ [][(attempts' = attempts + 1)
            => (announce' = IF reconnect' THEN "Reconnecting" ELSE announce)]_vars
    /\ [][(pc = "Connecting" /\ connect_result' = "Ok")
            => (announce' = IF reconnect THEN "Reconnected" ELSE "Connected")]_vars
    /\ [](announce \in {"Reconnecting", "Reconnected"} => reconnect)

C13_Witness ==
    /\ pc = "Connected"
    /\ attempts = 2
    /\ result = ErrConnectTimeout
    /\ reconnect
    /\ announce = "Reconnected"

\* C14: a connect rejection for which handle_ws_error returns Ok leaves the
\* loop at once, with no call of next(), no sleep and no connection attempt
\* ever after; a rejection for which it returns Err is logged and followed by
\* next() and the backoff sleep.
C14_RejectionClassified ==
    /\ [][(pc = "Connecting" /\ connect_result' \in WsErrors)
            => IF HandleWsError(connect_result') = "Ok"
               THEN /\ pc' = "Terminated"
                    /\ result' = "Break"
                    /\ UNCHANGED <<attempts, nextCalls, sleepFor, retry_sec,
                                   logged, reconnect>>
               ELSE /\ pc' = "Sleeping"
                    /\ result' = ErrConnectRejected
                    /\ logged' = logged + 1
                    /\ nextCalls' = nextCalls + 1
                    /\ sleepFor' = RetryNext(retry_sec).sec
                    /\ attempts' = attempts]_vars
    /\ []((connect_result \in WsErrors /\ HandleWsError(connect_result) = "Ok")
            => pc \in {"Terminated", "Exited"})
    /\ []((connect_result \in WsErrors /\ HandleWsError(connect_result) = "Err")
            => pc \in {"Sleeping", "Connecting"})

C14_Witness ==
    /\ pc = "Terminated"
    /\ connect_result = "Http409"
    /\ attempts = 2
    /\ nextCalls = 1
    /\ logged = 1

\* C15: when the Pong for a Ping cannot be sent the session ends with the
\* send error: it is logged, reset() is not called, next() is called and main
\* sleeps and then reconnects; main is never Terminated with that result; in
\* the handling of a Ping reset() is called only in the step that wrote the
\* Pong.
C15_PongSendFailureRetries ==
    /\ [][(pc = "SendingPong" /\ sent' = sent)
            => (/\ result' = ErrPongSend
                /\ session' = 0
                /\ logged' = logged + 1
                /\ resetCalls' = resetCalls
                /\ retry_sec' = RetryNext(retry_sec).state
                /\ nextCalls' = nextCalls + 1
                /\ sleepFor' = RetryNext(retry_sec).sec
                /\ pc' = "Sleeping")]_vars
    /\ [][(pc = "SendingPong" /\ resetCalls' # resetCalls)
            => sent' = Append(sent, message.payload)]_vars
    /\ [][(pc = "Sleeping" /\ result = ErrPongSend)
            => (pc' = "Connecting" /\ reconnect' /\ attempts' = attempts + 1)]_vars
    /\ [](result = ErrPongSend => pc \notin {"Terminated", "Exited"})

C15_Witness ==
    /\ pc = "Connecting"
    /\ result = ErrPongSend
    /\ message.kind = "Ping"
    /\ pings = <<<<1, 2, 3>>>>
    /\ sent = <<>>
    /\ resetCalls = 0
    /\ attempts = 2

\* C16: a Binary, Pong or raw frame is consumed and nothing else happens: no
\* Pong is written, the Handler is not called, the backoff state, the
\* reconnect flag and the result are as before, nothing is logged, and the
\* session stays open waiting for the next frame.
C16_OtherFramesIgnored ==
    [][(pc = "Connected" /\ frames' = frames + 1 /\ message'.kind \in OtherKinds)
         => (/\ pc' = "Connected"
             /\ session' = session
             /\ session' # 0
             /\ UNCHANGED <<sent, pings, handlerCalls, handlerArg, handlerRet,
                            retry_sec, streak, resetCalls, nextCalls, reconnect,
                            result, logged, sleepFor, attempts, announce>>)]_vars

C16_Witness ==
    /\ pc = "SendingPong"
    /\ frames = 2
    /\ Len(pings) = 1
    /\ handlerCalls = 0
    /\ retry_sec > RetryFloor
    /\ reconnect

\* a Pong of the open session is being sent
PongInFlight == session # 0 /\ Len(pings) > Len(sent)

\* a call of handle_server_message has not returned yet
DispatchInFlight == session # 0 /\ handlerRet = "Pending"

\* C17: in the open session at most one Pong send or Handler call is in
\* flight; a frame is taken from the receive half only when none is (the
\* handling of the frame before it is over); and the Pongs written are the
\* payloads of the Pings received, in their order.
C17_FrameHandlingSerialized ==
    /\ [](~(PongInFlight /\ DispatchInFlight))
    /\ [](session # 0
            => (/\ Len(pings) <= Len(sent) + 1
                /\ \A i \in 1..Len(sent) : sent[i] = pings[i]))
    /\ [](PongInFlight <=> pc = "SendingPong")
    /\ [](DispatchInFlight <=> pc = "Handling")
    /\ [][(frames' = frames + 1)
            => (pc = "Connected" /\ ~PongInFlight /\ ~DispatchInFlight)]_vars

C17_Witness ==
    /\ pc = "SendingPong"
    /\ frames = 2
    /\ handlerCalls = 1
    /\ handlerRet = "Continue"
    /\ message.kind = "Ping"
    /\ sent = <<>>

\* C18: a session is open exactly while main is in the frame loop, and it is
\* the session of the latest connection attempt; a connection attempt starts
\* only with no session open and every handshake opens a new, empty session;
\* frames are consumed, Pongs written and the Handler called only on the open
\* session; and the target address, once built, never changes.
C18_OneFreshSessionPerAttempt ==
    /\ [](session \in {0, attempts})
    /\ [](session # 0 <=> pc \in {"Connected", "SendingPong", "Handling"})
    /\ [][(attempts' # attempts)
            => (session = 0 /\ session' = 0 /\ attempts' = attempts + 1)]_vars
    /\ [][(session' \notin {0, session})
            => (/\ session = 0
                /\ pc = "Connecting"
                /\ session' = attempts
                /\ frames' = 0
                /\ pings' = <<>>
                /\ sent' = <<>>)]_vars
    /\ [][(frames' = frames + 1 \/ Len(sent') = Len(sent) + 1
           \/ handlerCalls' # handlerCalls \/ handlerRet' # handlerRet)
            => (session # 0 /\ session' \in {session, 0})]_vars
    /\ [](attempts > 0 => url = "ws-url")
    /\ [][(url # "unset") => url' = url]_vars

C18_Witness ==
    /\ pc = "Connected"
    /\ session = 3
    /\ frames = 0
    /\ sent = <<>>
    /\ result = "Success"
    /\ message = NoMessage
    /\ handlerCalls = 2

\* C19: when read.next() yields no more items the session ends as after a
\* Close frame: the result is Success, nothing is logged, reset() is not
\* called, next() is called once and main sleeps the returned wait; the only
\* step out of that sleep is a new connection attempt, and main is never
\* Terminated by the end of the stream.
C19_StreamEndLikeClose ==
    /\ [][(pc = "Connected" /\ message'.kind = "EndOfStream")
            => (/\ result' = CloseResult
                /\ session' = 0
                /\ frames' = frames
                /\ logged' = logged
                /\ resetCalls' = resetCalls
                /\ nextCalls' = nextCalls + 1
                /\ sleepFor' = RetryNext(retry_sec).sec
                /\ retry_sec' = RetryNext(retry_sec).state
                /\ pc' = "Sleeping")]_vars
    /\ [][(pc = "Sleeping" /\ message.kind = "EndOfStream")
            => (pc' = "Connecting" /\ attempts' = attempts + 1)]_vars
    /\ []((message.kind = "EndOfStream" /\ result = "Success")
            => pc \in {"Sleeping", "Connecting"})

C19_Witness ==
    /\ pc = "Connecting"
    /\ message.kind = "EndOfStream"
    /\ result = "Success"
    /\ attempts = 2
    /\ logged = 0
    /\ nextCalls = 1
    /\ frames = 1

\* C20: when handle_server_message returns an error the session ends with
\* that error: it is logged, reset() is not called, next() is called once and
\* main sleeps the returned wait; the only step out of that sleep is a new
\* connection attempt, and main is never Terminated with that result.
C20_HandlerErrorRetries ==
    /\ [][(pc = "Handling" /\ handlerRet' = "Error")
            => (/\ result' = ErrHandler
                /\ session' = 0
                /\ logged' = logged + 1
                /\ resetCalls' = resetCalls
                /\ nextCalls' = nextCalls + 1
                /\ sleepFor' = RetryNext(retry_sec).sec
                /\ retry_sec' = RetryNext(retry_sec).state
                /\ handlerCalls' = handlerCalls
                /\ pc' = "Sleeping")]_vars
    /\ [][(pc = "Sleeping" /\ result = ErrHandler)
            => (pc' = "Connecting" /\ reconnect' /\ attempts' = attempts + 1)]_vars
    /\ [](result = ErrHandler => pc \notin {"Terminated", "Exited"})

C20_Witness ==
    /\ pc = "Connecting"
    /\ result = ErrHandler
    /\ handlerRet = "Error"
    /\ handlerCalls = 1
    /\ resetCalls = 0
    /\ logged = 1
    /\ nextCalls = 1
    /\ attempts = 2

====
